---- MODULE Spec2Model ----
(***************************************************************************)
(* Counting core of the animal-detection repository:                       *)
(*   - SimpleAnimalDetector.detect_frame     (src/src/detector.py)         *)
(*   - CountingEvaluator                     (src/evaluate_counting.py)    *)
(*                                                                         *)
(* Python dicts are functions whose DOMAIN is the set of keys.  Fractions  *)
(* (the unrounded mae / mape / accuracy and the batch averages) are exact  *)
(* rationals [num, den] in lowest terms; a value that went through         *)
(* round(x, 2) is an integer number of hundredths (50 stands for 0.50).    *)
(***************************************************************************)
EXTENDS Integers, Sequences, FiniteSets, TLC

(* ------------------------------ bounds --------------------------------- *)
MaxBoxes  == 2    \* boxes the model returns for one frame
MaxFrames == 2    \* frames read from one video
MaxVideos == 2    \* entries of the ground-truth file
MaxGT     == 2    \* largest expected count in a ground-truth file
MaxCount  == 3    \* largest count handed directly to calculate_metrics
MaxAppFrames == 3  \* frames one run of the application reads

(* ------------------------ configuration / model ------------------------ *)
\* config['animals']['classes']: the seven supported animals and their ids
SUPPORTED_ANIMALS == {"horse", "sheep", "cow", "elephant", "bear", "zebra", "giraffe"}
COCO_IDS == 17..23

\* self.model.names restricted to the class ids the modelled detector emits
BoxClassIds == {0, 17, 19}
ModelNames == [id \in BoxClassIds |->
                 IF id = 0 THEN "person" ELSE IF id = 17 THEN "horse" ELSE "cow"]

\* labels a modelled frame can produce
FrameLabels == {"horse", "cow"}

(* ------------------------------ dicts ---------------------------------- *)
EmptyDict == [k \in {} |-> 0]

\* dict.get(k, 0), also the read of a defaultdict(int)
Get(d, k) == IF k \in DOMAIN d THEN d[k] ELSE 0

\* d[k] = v
Put(d, k, v) == [x \in (DOMAIN d) \cup {k} |-> IF x = k THEN v ELSE d[x]]

Max(a, b) == IF a >= b THEN a ELSE b

Abs(x) == IF x >= 0 THEN x ELSE 0 - x

(* ------------------------ SimpleAnimalDetector ------------------------- *)
\* variant: every box the model returns is taken
IsWantedAnimalAny(class_id) == class_id \in BoxClassIds

\* the allow-list test of one box
IsWantedAnimal(class_id) ==
    class_id \in COCO_IDS /\ ModelNames[class_id] \in SUPPORTED_ANIMALS

\* the loop over result.boxes: frame_counts[class_name] += 1 for allowed boxes
RECURSIVE CountBoxes(_, _)
CountBoxes(boxes, frame_counts) ==
    IF boxes = <<>> THEN frame_counts
    ELSE LET class_id   == Head(boxes)
             class_name == ModelNames[class_id]
         IN  CountBoxes(Tail(boxes),
                        IF IsWantedAnimal(class_id)
                        THEN Put(frame_counts, class_name, Get(frame_counts, class_name) + 1)
                        ELSE frame_counts)

FrameCounts(frame) == CountBoxes(frame, EmptyDict)

\* the same loop: detections.append({...}) for allowed boxes, in box order
RECURSIVE CollectDetections(_, _)
CollectDetections(boxes, detections) ==
    IF boxes = <<>> THEN detections
    ELSE LET class_id   == Head(boxes)
             class_name == ModelNames[class_id]
         IN  CollectDetections(Tail(boxes),
                               IF IsWantedAnimal(class_id)
                               THEN Append(detections,
                                           [class_name |-> class_name, coco_id |-> class_id])
                               ELSE detections)

DetectionsOf(frame) == CollectDetections(frame, <<>>)

\* variant: the stored maximum is overwritten by the latest count
UpdateMaxOverwrite(m, counts) ==
    [a \in (DOMAIN m) \cup (DOMAIN counts) |->
        IF a \in DOMAIN counts THEN counts[a] ELSE m[a]]

\* variant: the maxima are rebuilt from the labels of the latest frame only
UpdateMaxRebuild(m, counts) ==
    [a \in DOMAIN counts |-> Max(Get(m, a), counts[a])]

\* for animal, count in counts.items(): m[animal] = max(m[animal], count)
UpdateMax(m, counts) ==
    [a \in (DOMAIN m) \cup (DOMAIN counts) |->
        IF a \in DOMAIN counts THEN Max(Get(m, a), counts[a]) ELSE m[a]]

\* variant: the latest counts are merged into the previous ones
NewCurrentMerged(current, frame_counts) ==
    [a \in (DOMAIN current) \cup (DOMAIN frame_counts) |->
        IF a \in DOMAIN frame_counts THEN frame_counts[a] ELSE current[a]]

\* self.current_counts = frame_counts
NewCurrent(current, frame_counts) == frame_counts

\* sum(d.values())
RECURSIVE SumDict(_)
SumDict(d) ==
    IF DOMAIN d = {} THEN 0
    ELSE LET k == CHOOSE x \in DOMAIN d : TRUE
         IN  d[k] + SumDict([x \in (DOMAIN d) \ {k} |-> d[x]])

\* variant: total_max is summed over the current counts
get_summary_current(current, maximum) ==
    [current_counts |-> current,
     max_counts     |-> maximum,
     total_animals  |-> SumDict(current),
     total_max      |-> SumDict(current),
     animal_types   |-> Cardinality(SUPPORTED_ANIMALS)]

\* SimpleAnimalDetector.get_summary
get_summary(current, maximum) ==
    [current_counts |-> current,
     max_counts     |-> maximum,
     total_animals  |-> SumDict(current),
     total_max      |-> SumDict(maximum),
     animal_types   |-> Cardinality(SUPPORTED_ANIMALS)]

\* variant: the summary reads the defaultdict by subscript for every class
\* and so leaves a zero entry for each
CountsAfterSummaryDefaulted(counts) ==
    [a \in (DOMAIN counts) \cup SUPPORTED_ANIMALS |-> Get(counts, a)]

\* a count dict of the detector after get_summary: dict(...) copies, no write
CountsAfterSummary(counts) == counts

\* the frames the model is given: the class ids of the boxes it returns
RECURSIVE SeqsUpTo(_, _)
SeqsUpTo(S, n) ==
    IF n = 0 THEN {<<>>}
    ELSE LET shorter == SeqsUpTo(S, n - 1)
         IN  shorter \cup {Append(s, x) : s \in {t \in shorter : Len(t) = n - 1}, x \in S}

Frames == SeqsUpTo(BoxClassIds, MaxBoxes)

(* ------------------------------ rationals ------------------------------ *)
RECURSIVE GCD(_, _)
GCD(a, b) == IF b = 0 THEN a ELSE GCD(b, a % b)

\* num / den in lowest terms, den > 0, num >= 0
Rat(num, den) == LET g == GCD(num, den) IN [num |-> num \div g, den |-> den \div g]

RatAdd(x, y) == Rat(x.num * y.den + y.num * x.den, x.den * y.den)

RatDivInt(x, n) == Rat(x.num, x.den * n)

RECURSIVE RatSum(_)
RatSum(s) == IF s = <<>> THEN Rat(0, 1) ELSE RatAdd(Head(s), RatSum(Tail(s)))

RECURSIVE IntSum(_)
IntSum(s) == IF s = <<>> THEN 0 ELSE Head(s) + IntSum(Tail(s))

\* round(x, 2) as a number of hundredths; an exact tie goes to the even side
Round2(x) ==
    LET s == x.num * 100
        q == s \div x.den
        r == s % x.den
    IN  IF 2 * r < x.den THEN q
        ELSE IF 2 * r > x.den THEN q + 1
        ELSE IF q % 2 = 0 THEN q ELSE q + 1

(* ------------------- CountingEvaluator.calculate_metrics --------------- *)
\* variant: only the classes that were predicted are evaluated
AllAnimalsPredicted(predicted, ground_truth) == (DOMAIN ground_truth) \cap (DOMAIN predicted)

\* all_animals = set(ground_truth.keys())
AllAnimals(predicted, ground_truth) == DOMAIN ground_truth

\* the accumulators before the loop: errors, percentage_errors, correct, total
NoMetrics == [errors |-> <<>>, percentage_errors |-> <<>>, correct |-> 0, total |-> 0]

\* variant: a prediction at or above the expected count is taken as a match
LoopStepAtLeast(acc, pred_count, gt_count) ==
    LET error == Abs(pred_count - gt_count)
    IN  [errors            |-> Append(acc.errors, error),
         percentage_errors |-> IF gt_count > 0
                               THEN Append(acc.percentage_errors, Rat(error * 100, gt_count))
                               ELSE acc.percentage_errors,
         correct           |-> IF pred_count >= gt_count THEN acc.correct + 1 ELSE acc.correct,
         total             |-> acc.total + 1]

\* variant: the error keeps its sign (the abs() is missing)
LoopStepSigned(acc, pred_count, gt_count) ==
    LET error == pred_count - gt_count
    IN  [errors            |-> Append(acc.errors, error),
         percentage_errors |-> IF gt_count > 0
                               THEN Append(acc.percentage_errors, Rat(error * 100, gt_count))
                               ELSE acc.percentage_errors,
         correct           |-> IF pred_count = gt_count THEN acc.correct + 1 ELSE acc.correct,
         total             |-> acc.total + 1]

\* variant: only classes with a nonzero error enter the percentage errors
LoopStepNonzeroOnly(acc, pred_count, gt_count) ==
    LET error == Abs(pred_count - gt_count)
    IN  [errors            |-> Append(acc.errors, error),
         percentage_errors |-> IF gt_count > 0 /\ error > 0
                               THEN Append(acc.percentage_errors, Rat(error * 100, gt_count))
                               ELSE acc.percentage_errors,
         correct           |-> IF pred_count = gt_count THEN acc.correct + 1 ELSE acc.correct,
         total             |-> acc.total + 1]

\* variant: a zero expected count is clamped to 1 instead of being left out
LoopStepClamped(acc, pred_count, gt_count) ==
    LET error == Abs(pred_count - gt_count)
    IN  [errors            |-> Append(acc.errors, error),
         percentage_errors |-> Append(acc.percentage_errors,
                                      Rat(error * 100, Max(gt_count, 1))),
         correct           |-> IF pred_count = gt_count THEN acc.correct + 1 ELSE acc.correct,
         total             |-> acc.total + 1]

\* variant: every evaluated class is counted as correct
LoopStepAllCorrect(acc, pred_count, gt_count) ==
    LET error == Abs(pred_count - gt_count)
    IN  [errors            |-> Append(acc.errors, error),
         percentage_errors |-> IF gt_count > 0
                               THEN Append(acc.percentage_errors, Rat(error * 100, gt_count))
                               ELSE acc.percentage_errors,
         correct           |-> acc.correct + 1,
         total             |-> acc.total + 1]

\* one pass of the loop body for a class with the given predicted / expected count
LoopStep(acc, pred_count, gt_count) ==
    LET error == Abs(pred_count - gt_count)
    IN  [errors            |-> Append(acc.errors, error),
         percentage_errors |-> IF gt_count > 0
                               THEN Append(acc.percentage_errors, Rat(error * 100, gt_count))
                               ELSE acc.percentage_errors,
         correct           |-> IF pred_count = gt_count THEN acc.correct + 1 ELSE acc.correct,
         total             |-> acc.total + 1]

\* gt_count = ground_truth[animal]
GtCount(ground_truth, animal) == ground_truth[animal]

\* for animal in all_animals: ...
RECURSIVE MetricsLoop(_, _, _, _)
MetricsLoop(animals, predicted, ground_truth, acc) ==
    IF animals = {} THEN acc
    ELSE LET animal == CHOOSE a \in animals : TRUE
         IN  MetricsLoop(animals \ {animal}, predicted, ground_truth,
                         LoopStep(acc, Get(predicted, animal), GtCount(ground_truth, animal)))

\* mae = sum(errors) / len(errors) if errors else 0
MeanError(errors) ==
    IF Len(errors) > 0 THEN Rat(IntSum(errors), Len(errors)) ELSE Rat(0, 1)

\* mape = sum(percentage_errors) / len(percentage_errors) if percentage_errors else 0
MeanPercentageError(percentage_errors) ==
    IF Len(percentage_errors) > 0
    THEN RatDivInt(RatSum(percentage_errors), Len(percentage_errors))
    ELSE Rat(0, 1)

\* accuracy = (correct / total * 100) if total > 0 else 0
Accuracy(correct, total) ==
    IF total > 0 THEN Rat(correct * 100, total) ELSE Rat(0, 1)

\* variant: predicted classes are evaluated too, against an expected count of 0
MetricsLocalsUnion(predicted, ground_truth) ==
    LET all == (DOMAIN ground_truth) \cup (DOMAIN predicted)
        acc == MetricsLoop(all, predicted, [a \in all |-> Get(ground_truth, a)], NoMetrics)
    IN  [errors            |-> acc.errors,
         percentage_errors |-> acc.percentage_errors,
         correct           |-> acc.correct,
         total             |-> acc.total,
         mae               |-> MeanError(acc.errors),
         mape              |-> MeanPercentageError(acc.percentage_errors),
         accuracy          |-> Accuracy(acc.correct, acc.total)]

\* the local variables of calculate_metrics when it reaches its return
MetricsLocals(predicted, ground_truth) ==
    LET acc == MetricsLoop(AllAnimals(predicted, ground_truth), predicted, ground_truth, NoMetrics)
    IN  [errors            |-> acc.errors,
         percentage_errors |-> acc.percentage_errors,
         correct           |-> acc.correct,
         total             |-> acc.total,
         mae               |-> MeanError(acc.errors),
         mape              |-> MeanPercentageError(acc.percentage_errors),
         accuracy          |-> Accuracy(acc.correct, acc.total)]

\* the returned dict; mae, mape and accuracy are in hundredths
ResultOf(m, predicted, ground_truth, video_name) ==
    [video          |-> video_name,
     predicted      |-> predicted,
     ground_truth   |-> ground_truth,
     mae            |-> Round2(m.mae),
     mape           |-> Round2(m.mape),
     accuracy       |-> Round2(m.accuracy),
     correct_counts |-> m.correct,
     total_classes  |-> m.total]

calculate_metrics(predicted, ground_truth, video_name) ==
    ResultOf(MetricsLocals(predicted, ground_truth), predicted, ground_truth, video_name)

(* ---------------------- CountingEvaluator.print_summary ---------------- *)
\* sum(r[field] for r in self.results), field in hundredths
RECURSIVE SumField(_, _)
SumField(rs, field) == IF rs = <<>> THEN 0 ELSE Head(rs)[field] + SumField(Tail(rs), field)

\* variant: every video weighs as many times as it has ground-truth classes
RECURSIVE SumWeighted(_, _)
SumWeighted(rs, field) ==
    IF rs = <<>> THEN 0
    ELSE Head(rs)[field] * Head(rs).total_classes + SumWeighted(Tail(rs), field)

AverageWeighted(rs, field) ==
    IF SumField(rs, "total_classes") = 0 THEN Rat(0, 1)
    ELSE Rat(SumWeighted(rs, field), 100 * SumField(rs, "total_classes"))

\* sum(...) / len(self.results)

Average(rs, field) == Rat(SumField(rs, field), 100 * Len(rs))

NoSummary == [displayed |-> FALSE, avg_mae |-> Rat(0, 1), avg_mape |-> Rat(0, 1),
              avg_accuracy |-> Rat(0, 1)]

print_summary(rs) ==
    IF rs = <<>> THEN NoSummary
    ELSE [displayed    |-> TRUE,
          avg_mae      |-> Average(rs, "mae"),
          avg_mape     |-> Average(rs, "mape"),
          avg_accuracy |-> Average(rs, "accuracy")]

(* ------------------------------- state --------------------------------- *)
VARIABLES
    current_counts,     \* SimpleAnimalDetector.current_counts
    max_counts,         \* SimpleAnimalDetector.max_counts
    results,            \* CountingEvaluator.results
    all_ground_truths,  \* evaluate_all: the loaded ground-truth file, in file order
    vidx,               \* evaluate_all: position of the for loop in the file
    pc,                 \* evaluate_all / evaluate_video: where the evaluator is
    ev_max_counts,      \* evaluate_video: the local max_counts
    frame_count,        \* evaluate_video: the local frame_count
    locals,             \* calculate_metrics: its locals at the latest return
    summary,            \* print_summary: the overall averages it displayed
    saved,              \* save_results: the content of the report file
    detections,         \* detect_frame: the detections list it returned last
    last_frame,         \* history: the boxes of the frame detect_frame ran on last
    session_seen,       \* history: observations detect_frame produced since construction
    video_seen,         \* history: observations of the video being (or last) evaluated
    opened,             \* history: videos whose capture opened so far
    skipped,            \* history: videos not found or not opened so far
    m_pc,               \* direct call of calculate_metrics: before / after
    m_predicted,        \* direct call: the predicted argument
    m_ground_truth,     \* direct call: the ground_truth argument
    m_result,           \* direct call: the returned dict
    app_pc,             \* COCOAnimalDetectionApp.run: where the application is
    app_frame_count,    \* COCOAnimalDetectionApp.frame_count
    fps_history,        \* run: len(fps_history)
    last_save_time,     \* COCOAnimalDetectionApp.last_save_time, in seconds
    clock,              \* the latest reading of time.time(), in seconds
    connected,          \* SimpleInfluxDB: self.client is not None
    key,                \* run: the key read by the latest cv2.waitKey
    ticks,              \* history: one record per frame that passed the 15 s gate
    stats,              \* save_stats: the summary get_summary returned last
    stats_calls,        \* history: number of get_summary calls
    detected_since,     \* history: detect_frame ran since the latest get_summary
    frames_detected,    \* history: frames run has passed to detect_frame
    frames_shown        \* history: frames run has handed to cv2.imshow and out.write

detector_vars  == <<current_counts, max_counts, detections, last_frame, session_seen>>
evaluator_vars == <<results, all_ground_truths, vidx, pc, ev_max_counts, frame_count,
                    summary, saved, video_seen, opened, skipped>>
metrics_vars   == <<m_pc, m_predicted, m_ground_truth, m_result>>
app_vars       == <<app_pc, app_frame_count, fps_history, last_save_time, clock, connected,
                    key, ticks, stats, stats_calls, detected_since, frames_detected,
                    frames_shown>>
vars == <<detector_vars, evaluator_vars, locals, metrics_vars, app_vars>>

(* ------------------------------- inputs -------------------------------- *)
PartialFns(S, V) == UNION {[D -> V] : D \in SUBSET S}

\* the per-video ground truths a file may hold
GroundTruths == PartialFns(FrameLabels, 0..MaxGT)

\* ground-truth files: up to MaxVideos videos, each with its expected counts
GroundTruthFiles == SeqsUpTo(GroundTruths, MaxVideos)

\* arguments of a direct call of calculate_metrics
MetricLabels == {"horse", "cow", "sheep"}
CountDicts == PartialFns(MetricLabels, 0..MaxCount)

\* the worked examples of the specification (predicted, ground_truth)
ScenarioCalls ==
    { << [k \in {"a", "b"} |-> IF k = "a" THEN 5 ELSE 8],
         [k \in {"a", "b"} |-> IF k = "a" THEN 0 ELSE 10] >> }

MetricCalls == (CountDicts \X CountDicts) \cup ScenarioCalls

NoLocals == MetricsLocals(EmptyDict, EmptyDict)
NoResult == calculate_metrics(EmptyDict, EmptyDict, 0)

(* -------------------------------- Init --------------------------------- *)
\* SimpleAnimalDetector.__init__
DetectorInit ==
    /\ current_counts = EmptyDict
    /\ max_counts = EmptyDict
    /\ detections = <<>>
    /\ last_frame = <<>>
    /\ session_seen = {}

\* CountingEvaluator.__init__ and the head of evaluate_all
EvaluatorInit ==
    /\ results = <<>>
    /\ vidx = 1
    /\ ev_max_counts = EmptyDict
    /\ frame_count = 0
    /\ summary = NoSummary
    /\ saved = <<>>
    /\ video_seen = {}
    /\ opened = 0
    /\ skipped = 0

MetricsIdle ==
    /\ m_pc = "idle"
    /\ m_predicted = EmptyDict
    /\ m_ground_truth = EmptyDict
    /\ m_result = NoResult

NoStats == get_summary(EmptyDict, EmptyDict)

\* COCOAnimalDetectionApp.__init__, apart from the database connection
AppInit ==
    /\ app_frame_count = 0
    /\ fps_history = 0
    /\ last_save_time = 0
    /\ clock = 0
    /\ key = "none"
    /\ ticks = <<>>
    /\ stats = NoStats
    /\ stats_calls = 0
    /\ detected_since = FALSE
    /\ frames_detected = 0
    /\ frames_shown = 0

\* no application object: the evaluator and the direct calls do not build one
AppIdle ==
    /\ AppInit
    /\ app_pc = "idle"
    /\ connected = FALSE

Init ==
    /\ DetectorInit
    /\ EvaluatorInit
    /\ all_ground_truths \in GroundTruthFiles
    /\ pc = "loop"
    /\ locals = NoLocals
    /\ MetricsIdle
    /\ AppIdle

(* ------------------------- evaluate_all actions ------------------------ *)
\* variant: the maxima of the previous video are carried into the next one
LocalMaxCountsKept(previous) == previous

\* evaluate_video: max_counts = defaultdict(int), a new local for every video
LocalMaxCounts(previous) == EmptyDict

\* variant: the None a failed evaluate_video returns is kept as a result
ResultsAfterSkipKept(rs) == Append(rs, NoResult)

\* self.results after a video was skipped: nothing is appended
ResultsAfterSkip(rs) == rs

\* variant: a skipped video ends the for loop
NextVideoAfterSkipBreak(i, n) == n + 1

\* the for loop after a skipped video: continue with the next entry
NextVideoAfterSkip(i, n) == i + 1

\* os.path.exists(video_path) is false: "Video not found", continue
VideoNotFound ==
    /\ pc = "loop"
    /\ vidx <= Len(all_ground_truths)
    /\ vidx' = NextVideoAfterSkip(vidx, Len(all_ground_truths))
    /\ results' = ResultsAfterSkip(results)
    /\ skipped' = skipped + 1
    /\ UNCHANGED <<detector_vars, all_ground_truths, pc, ev_max_counts, frame_count,
                   summary, saved, video_seen, opened, locals, metrics_vars, app_vars>>

\* evaluate_video: cap.isOpened() is false, return None
CannotOpen ==
    /\ pc = "loop"
    /\ vidx <= Len(all_ground_truths)
    /\ vidx' = NextVideoAfterSkip(vidx, Len(all_ground_truths))
    /\ results' = ResultsAfterSkip(results)
    /\ skipped' = skipped + 1
    /\ UNCHANGED <<detector_vars, all_ground_truths, pc, ev_max_counts, frame_count,
                   summary, saved, video_seen, opened, locals, metrics_vars, app_vars>>

\* evaluate_video: the capture opened; max_counts = defaultdict(int), frame_count = 0
OpenVideo ==
    /\ pc = "loop"
    /\ vidx <= Len(all_ground_truths)
    /\ pc' = "frames"
    /\ ev_max_counts' = LocalMaxCounts(ev_max_counts)
    /\ frame_count' = 0
    /\ video_seen' = {}
    /\ opened' = opened + 1
    /\ UNCHANGED <<detector_vars, results, all_ground_truths, vidx, summary, saved,
                   skipped, locals, metrics_vars, app_vars>>

\* one iteration of the frame loop: cap.read() gave a frame, detect_frame ran on it
ReadFrame ==
    /\ pc = "frames"
    /\ frame_count < MaxFrames
    /\ \E frame \in Frames :
         LET frame_counts == FrameCounts(frame)
         IN  /\ max_counts' = UpdateMax(max_counts, frame_counts)
             /\ current_counts' = NewCurrent(current_counts, frame_counts)
             /\ detections' = DetectionsOf(frame)
             /\ last_frame' = frame
             /\ ev_max_counts' = UpdateMax(ev_max_counts, frame_counts)
             /\ session_seen' = session_seen \cup {frame_counts}
             /\ video_seen' = video_seen \cup {frame_counts}
    /\ frame_count' = frame_count + 1
    /\ UNCHANGED <<results, all_ground_truths, vidx, pc, summary, saved, opened, skipped,
                   locals, metrics_vars, app_vars>>

\* cap.read() gave no frame: release, calculate_metrics, results.append(result)
EndOfVideo ==
    /\ pc = "frames"
    /\ locals' = MetricsLocals(ev_max_counts, all_ground_truths[vidx])
    /\ results' = Append(results,
                         calculate_metrics(ev_max_counts, all_ground_truths[vidx], vidx))
    /\ vidx' = vidx + 1
    /\ pc' = "loop"
    /\ UNCHANGED <<detector_vars, all_ground_truths, ev_max_counts, frame_count, summary,
                   saved, video_seen, opened, skipped, metrics_vars, app_vars>>

\* after the last video: print_summary() and save_results()
Finish ==
    /\ pc = "loop"
    /\ vidx > Len(all_ground_truths)
    /\ summary' = print_summary(results)
    /\ saved' = results
    /\ pc' = "done"
    /\ UNCHANGED <<detector_vars, results, all_ground_truths, vidx, ev_max_counts,
                   frame_count, video_seen, opened, skipped, locals, metrics_vars, app_vars>>

Next == VideoNotFound \/ CannotOpen \/ OpenVideo \/ ReadFrame \/ EndOfVideo \/ Finish

Spec == Init /\ [][Next]_vars

(* -------------------- evaluate_video called on its own ----------------- *)
\* a fresh evaluator and one video with its ground_truth_counts
InitVideo ==
    /\ DetectorInit
    /\ EvaluatorInit
    /\ all_ground_truths \in {<<g>> : g \in GroundTruths}
    /\ pc = "loop"
    /\ locals = NoLocals
    /\ MetricsIdle
    /\ AppIdle

NextVideo == CannotOpen \/ OpenVideo \/ ReadFrame \/ EndOfVideo

SpecVideo == InitVideo /\ [][NextVideo]_vars

(* ------------------ calculate_metrics called on its own ---------------- *)
InitMetrics ==
    /\ DetectorInit
    /\ EvaluatorInit
    /\ all_ground_truths = <<>>
    /\ pc = "idle"
    /\ locals = NoLocals
    /\ m_pc = "call"
    /\ \E call \in MetricCalls : m_predicted = call[1] /\ m_ground_truth = call[2]
    /\ m_result = NoResult
    /\ AppIdle

CalculateMetrics ==
    /\ m_pc = "call"
    /\ locals' = MetricsLocals(m_predicted, m_ground_truth)
    /\ m_result' = calculate_metrics(m_predicted, m_ground_truth, 0)
    /\ m_pc' = "returned"
    /\ UNCHANGED <<detector_vars, evaluator_vars, m_predicted, m_ground_truth, app_vars>>

NextMetrics == CalculateMetrics

SpecMetrics == InitMetrics /\ [][NextMetrics]_vars

(* ======================= properties of the counting ==================== *)
\* every label that can occur as a key of a count dict in the current state
KnownLabels ==
    FrameLabels \cup DOMAIN max_counts \cup DOMAIN current_counts \cup DOMAIN ev_max_counts

\* the largest count of label in a set of observations, 0 when none has it
PeakSeen(seen, label) ==
    LET counts == {Get(o, label) : o \in seen} \cup {0}
    IN  CHOOSE m \in counts : \A c \in counts : c <= m

\* the observation a frame stands for: per allowed label, the number of its boxes
BoxesOf(frame, label) ==
    {i \in 1..Len(frame) :
        /\ ModelNames[frame[i]] = label
        /\ frame[i] \in COCO_IDS
        /\ label \in SUPPORTED_ANIMALS}

ObservationOf(frame) ==
    LET present == {label \in FrameLabels : BoxesOf(frame, label) # {}}
    IN  [label \in present |-> Cardinality(BoxesOf(frame, label))]

\* C1: after any sequence of frames, the detector's maximum of a label is the
\* largest count observed for it since construction, and the evaluator's
\* per-video maximum is the largest count observed in that video; a label
\* never observed is absent (0).
C1_MaximumIsLargestObserved ==
    /\ \A label \in KnownLabels :
          /\ Get(max_counts, label) = PeakSeen(session_seen, label)
          /\ Get(ev_max_counts, label) = PeakSeen(video_seen, label)
    /\ \A label \in DOMAIN max_counts : \E o \in session_seen : label \in DOMAIN o
    /\ \A label \in DOMAIN ev_max_counts : \E o \in video_seen : label \in DOMAIN o

\* a second frame with fewer horses than the first, and no cow so far
C1_Witness ==
    /\ pc = "frames"
    /\ frame_count = 2
    /\ Get(ev_max_counts, "horse") = 2
    /\ Get(max_counts, "horse") = 2
    /\ Get(current_counts, "horse") = 1
    /\ "cow" \notin DOMAIN max_counts

\* C2: maximum starts empty and no step lowers the maximum of any label.
C2_MaximumNeverDecreases ==
    /\ max_counts = EmptyDict
    /\ [][\A label \in KnownLabels : Get(max_counts', label) >= Get(max_counts, label)]_vars

\* a frame without horses was processed after one with two horses
C2_Witness ==
    /\ Get(max_counts, "horse") = 2
    /\ "horse" \notin DOMAIN current_counts
    /\ Len(last_frame) > 0

\* C3: a detect_frame step leaves current equal to the observation of the frame
\* it ran on (labels absent from it read 0) and leaves the maximum of every
\* label absent from that observation as it was.
C3_CurrentReplacedMaximumKept ==
    [][frame_count' = frame_count + 1 =>
          /\ current_counts' = ObservationOf(last_frame')
          /\ \A label \in KnownLabels \ DOMAIN ObservationOf(last_frame') :
                /\ Get(current_counts', label) = 0
                /\ Get(max_counts', label) = Get(max_counts, label)]_vars

\* a cow-only frame right after a horse frame: no stale horse count
C3_Witness ==
    /\ frame_count = 2
    /\ Get(max_counts, "horse") = 1
    /\ current_counts = [label \in {"cow"} |-> 1]
    /\ last_frame = <<19>>

(* ===================== properties of calculate_metrics ================= *)
\* P[c] == G[c] for every class c of G, a class missing from P counting as 0
AllMatch(P, G) == \A c \in DOMAIN G : Get(P, c) = G[c]

\* the summed absolute error over the classes of S
RECURSIVE SumAbsErr(_, _, _)
SumAbsErr(P, G, S) ==
    IF S = {} THEN 0
    ELSE LET c == CHOOSE x \in S : TRUE
         IN  Abs(Get(P, c) - G[c]) + SumAbsErr(P, G, S \ {c})

Returned == m_pc = "returned"

\* C4 as stated: the reported accuracy is 100.0 exactly when every class of G
\* is predicted exactly, for every G, the empty mapping included.
C4_AsStated ==
    Returned => (m_result.accuracy = 10000 <=> AllMatch(m_predicted, m_ground_truth))

\* C4 amended: for a non-empty G the reported accuracy is 100.0 exactly when
\* every class of G is predicted exactly; for the empty G it is 0.
C4_AccuracyFullIffAllMatch ==
    Returned =>
       /\ m_ground_truth # EmptyDict =>
             (m_result.accuracy = 10000 <=> AllMatch(m_predicted, m_ground_truth))
       /\ m_ground_truth = EmptyDict => m_result.accuracy = 0

\* three classes, all predicted exactly, one of them by a missing key
C4_Witness ==
    /\ Returned
    /\ DOMAIN m_ground_truth = MetricLabels
    /\ m_ground_truth["horse"] = 3
    /\ m_ground_truth["sheep"] = 0
    /\ "sheep" \notin DOMAIN m_predicted
    /\ m_result.accuracy = 10000

\* C5 as stated: the reported mae is 0 exactly when every class matches, and is
\* otherwise the summed absolute error divided by the number of classes.
C5_AsStated ==
    Returned =>
       LET n == Cardinality(DOMAIN m_ground_truth)
           e == SumAbsErr(m_predicted, m_ground_truth, DOMAIN m_ground_truth)
       IN  /\ m_result.mae = 0 <=> AllMatch(m_predicted, m_ground_truth)
           /\ ~AllMatch(m_predicted, m_ground_truth) => m_result.mae * n = 100 * e

\* C5 amended: the reported mae is 0 exactly when every class matches, and is
\* otherwise the hundredth nearest to the summed absolute error divided by the
\* number of classes.
C5_MaeZeroIffAllMatch ==
    Returned =>
       LET n == Cardinality(DOMAIN m_ground_truth)
           e == SumAbsErr(m_predicted, m_ground_truth, DOMAIN m_ground_truth)
       IN  /\ m_result.mae = 0 <=> AllMatch(m_predicted, m_ground_truth)
           /\ ~AllMatch(m_predicted, m_ground_truth) =>
                 /\ 2 * Abs(m_result.mae * n - 100 * e) <= n
                 /\ locals.mae.num * n = e * locals.mae.den

\* three classes with a summed error of 2: 2/3 is reported as 0.67
C5_Witness ==
    /\ Returned
    /\ Cardinality(DOMAIN m_ground_truth) = 3
    /\ SumAbsErr(m_predicted, m_ground_truth, DOMAIN m_ground_truth) = 2
    /\ m_result.mae = 67

\* the scenario G = {horse:2, cow:1}, P = {horse:2, cow:0}
Scenario6 ==
    /\ Returned
    /\ m_ground_truth = [c \in {"horse", "cow"} |-> IF c = "horse" THEN 2 ELSE 1]
    /\ m_predicted = [c \in {"horse", "cow"} |-> IF c = "horse" THEN 2 ELSE 0]

\* C6 as stated: the scenario yields MAE 0.5, MAPE 100.0, 1 of 2 exact,
\* accuracy 50.0.
C6_AsStated ==
    Scenario6 =>
       /\ m_result.mae = 50
       /\ m_result.mape = 10000
       /\ m_result.correct_counts = 1
       /\ m_result.total_classes = 2
       /\ m_result.accuracy = 5000

\* C6 amended: the scenario yields MAE 0.5, MAPE 50.0 (horse enters the
\* average with 0, cow with 100), 1 of 2 exact, accuracy 50.0.
C6_ScenarioMetrics ==
    Scenario6 =>
       /\ m_result.mae = 50
       /\ m_result.mape = 5000
       /\ Len(locals.percentage_errors) = 2
       /\ m_result.correct_counts = 1
       /\ m_result.total_classes = 2
       /\ m_result.accuracy = 5000

C6_Witness == Scenario6 /\ m_result.total_classes = 2

\* the summed percentage error over the classes of S, all with G[c] > 0
RECURSIVE SumPctErr(_, _, _)
SumPctErr(P, G, S) ==
    IF S = {} THEN Rat(0, 1)
    ELSE LET c == CHOOSE x \in S : TRUE
         IN  RatAdd(Rat(Abs(Get(P, c) - G[c]) * 100, G[c]), SumPctErr(P, G, S \ {c}))

\* G without the class c
Without(G, c) == [x \in DOMAIN G \ {c} |-> G[x]]

\* the scenario G = {a:0, b:10}, P = {a:5, b:8}
Scenario7 ==
    /\ Returned
    /\ m_ground_truth = [c \in {"a", "b"} |-> IF c = "a" THEN 0 ELSE 10]
    /\ m_predicted = [c \in {"a", "b"} |-> IF c = "a" THEN 5 ELSE 8]

\* C7: MAPE is the mean of error/G[c]*100 over exactly the classes with
\* G[c] > 0 (0 when there is none); a class with G[c] = 0 enters the errors of
\* the MAE but leaves MAPE as it is without that class; G = {a:0, b:10},
\* P = {a:5, b:8} gives MAPE 20.0 and MAE 3.5.
C7_MapeOverPositiveGroundTruth ==
    Returned =>
       LET P   == m_predicted
           G   == m_ground_truth
           pos == {c \in DOMAIN G : G[c] > 0}
       IN  /\ Len(locals.percentage_errors) = Cardinality(pos)
           /\ pos # {} => locals.mape = RatDivInt(SumPctErr(P, G, pos), Cardinality(pos))
           /\ pos = {} => locals.mape = Rat(0, 1)
           /\ \A c \in DOMAIN G \ pos :
                 /\ MetricsLocals(P, Without(G, c)).mape = locals.mape
                 /\ Len(locals.errors) = Len(MetricsLocals(P, Without(G, c)).errors) + 1
                 /\ IntSum(locals.errors)
                       = IntSum(MetricsLocals(P, Without(G, c)).errors) + Get(P, c)
           /\ Scenario7 => m_result.mape = 2000 /\ m_result.mae = 350

C7_Witness == Scenario7 /\ Len(locals.errors) = 2 /\ Len(locals.percentage_errors) = 1

\* the four metrics of a result
MetricsOf(r) == <<r.mae, r.mape, r.accuracy, r.correct_counts>>

\* C8: the classes evaluated are exactly the keys of G: total_classes = |G|,
\* and any prediction that agrees with P on every key of G gets the same mae,
\* mape, accuracy and correct_counts.
C8_OnlyGroundTruthClassesCount ==
    Returned =>
       /\ m_result.total_classes = Cardinality(DOMAIN m_ground_truth)
       /\ Len(locals.errors) = Cardinality(DOMAIN m_ground_truth)
       /\ \A P2 \in CountDicts :
             (\A c \in DOMAIN m_ground_truth : Get(P2, c) = Get(m_predicted, c))
                => MetricsOf(calculate_metrics(P2, m_ground_truth, 0)) = MetricsOf(m_result)

\* cow is predicted three times but is no class of the ground truth
C8_Witness ==
    /\ Returned
    /\ DOMAIN m_ground_truth = {"horse"}
    /\ m_ground_truth["horse"] = 1
    /\ Get(m_predicted, "horse") = 1
    /\ Get(m_predicted, "cow") = 3
    /\ m_result.total_classes = 1
    /\ m_result.accuracy = 10000

(* ======================= properties of the evaluator =================== *)
\* the classes seen in at least one frame of the video
Detected == {c \in FrameLabels : \E o \in video_seen : c \in DOMAIN o}

\* the sum of the values of G over the classes of S
RECURSIVE SumValues(_, _)
SumValues(G, S) ==
    IF S = {} THEN 0
    ELSE LET c == CHOOSE x \in S : TRUE IN G[c] + SumValues(G, S \ {c})

\* C9: in the result of a video, a ground-truth class that no frame of the
\* video showed is scored with predicted count 0: its error is its
\* ground-truth value and it is an exact match only when that value is 0.
C9_UndetectedClassScoredAsZero ==
    results # <<>> =>
       LET r     == results[Len(results)]
           G     == r.ground_truth
           never == DOMAIN G \ Detected
           seen  == DOMAIN G \cap Detected
           peaks == [c \in seen |-> PeakSeen(video_seen, c)]
       IN  /\ \A c \in never : Get(r.predicted, c) = 0
           /\ r.total_classes = Cardinality(never) + Cardinality(seen)
           /\ IntSum(locals.errors) = SumAbsErr(peaks, G, seen) + SumValues(G, never)
           /\ r.correct_counts
                 = Cardinality({c \in seen : peaks[c] = G[c]})
                   + Cardinality({c \in never : G[c] = 0})

\* cows are expected twice and horses never, only a horse was ever in view
C9_Witness ==
    /\ Len(results) = 1
    /\ results[1].ground_truth = [c \in {"horse", "cow"} |-> IF c = "cow" THEN 2 ELSE 0]
    /\ DOMAIN results[1].predicted = {"horse"}
    /\ results[1].predicted["horse"] = 2
    /\ results[1].mae = 200
    /\ results[1].correct_counts = 0

\* the sum of a field over the results with index in S
RECURSIVE SumOver(_, _)
SumOver(S, field) ==
    IF S = {} THEN 0
    ELSE LET i == CHOOSE x \in S : TRUE
         IN  results[i][field] + SumOver(S \ {i}, field)

\* x equals hundredths / (100 * n)
IsMeanOf(x, hundredths, n) == x.num * 100 * n = hundredths * x.den

\* the summed absolute error of a result, recomputed from its counts
ErrorOf(r) == SumAbsErr(r.predicted, r.ground_truth, DOMAIN r.ground_truth)

\* the mae pooled over all classes of all videos is x
IsPooledMae(x) ==
    /\ SumOver(DOMAIN results, "total_classes") > 0
    /\ x.num * SumOver(DOMAIN results, "total_classes")
          = x.den * (ErrorOf(results[1])
                      + (IF Len(results) > 1 THEN ErrorOf(results[2]) ELSE 0)
                      + (IF Len(results) > 2 THEN ErrorOf(results[3]) ELSE 0))

\* C10: the overall averages are the plain means of the per-video mae, mape and
\* accuracy over the videos that produced a result, each video weighing the same.
C10_AveragesAreUnweightedMeans ==
    pc = "done" =>
       LET n == Len(results)
       IN  /\ summary.displayed <=> n > 0
           /\ n > 0 =>
                 /\ IsMeanOf(summary.avg_mae, SumOver(1..n, "mae"), n)
                 /\ IsMeanOf(summary.avg_mape, SumOver(1..n, "mape"), n)
                 /\ IsMeanOf(summary.avg_accuracy, SumOver(1..n, "accuracy"), n)

\* one class missed by 2 in the first video, two classes exact in the second:
\* the average mae is 1.0 where the pooled mae would be 2/3
C10_Witness ==
    /\ pc = "done"
    /\ Len(results) = 2
    /\ results[1].total_classes = 1
    /\ results[1].mae = 200
    /\ results[2].total_classes = 2
    /\ results[2].mae = 0
    /\ summary.avg_mae = Rat(1, 1)
    /\ IsPooledMae(Rat(2, 3))

(* ==================== print_summary called on its own ================== *)
\* what a video can leave in predicted: per label, a peak of at least one box
SummaryPredicted == PartialFns(FrameLabels, 1..MaxBoxes)

\* (predicted, ground_truth) of the videos behind a results list
SummaryCalls == SeqsUpTo(SummaryPredicted \X PartialFns(FrameLabels, 0..MaxCount), MaxVideos)

\* self.results as evaluate_video builds it, one calculate_metrics result per video
ResultsOf(calls) ==
    [i \in 1..Len(calls) |-> calculate_metrics(calls[i][1], calls[i][2], i)]

InitSummary ==
    /\ DetectorInit
    /\ vidx = 1
    /\ ev_max_counts = EmptyDict
    /\ frame_count = 0
    /\ summary = NoSummary
    /\ saved = <<>>
    /\ video_seen = {}
    /\ opened = 0
    /\ skipped = 0
    /\ all_ground_truths = <<>>
    /\ \E calls \in SummaryCalls : results = ResultsOf(calls)
    /\ pc = "summary"
    /\ locals = NoLocals
    /\ MetricsIdle
    /\ AppIdle

PrintSummary ==
    /\ pc = "summary"
    /\ summary' = print_summary(results)
    /\ pc' = "printed"
    /\ UNCHANGED <<detector_vars, results, all_ground_truths, vidx, ev_max_counts,
                   frame_count, saved, video_seen, opened, skipped, locals, metrics_vars, app_vars>>

NextSummary == PrintSummary

SpecSummary == InitSummary /\ [][NextSummary]_vars

\* the unrounded metrics of the video behind a result
RawOf(r) == MetricsLocals(r.predicted, r.ground_truth)

\* the mean over the videos of an unrounded metric
RawMean(rs, field) ==
    RatDivInt(RatSum([i \in 1..Len(rs) |-> RawOf(rs[i])[field]]), Len(rs))

\* C11: the overall averages print_summary displays are the means of the raw,
\* unrounded per-video MAE, MAPE and accuracy, so that no rounding of a
\* per-video value reaches the overall average.
C11_AveragesFromRawValues ==
    (pc = "printed" /\ summary.displayed) =>
        /\ summary.avg_mae = RawMean(results, "mae")
        /\ summary.avg_mape = RawMean(results, "mape")
        /\ summary.avg_accuracy = RawMean(results, "accuracy")

(* ===================== properties of the batch run ===================== *)
\* C12: a video that is missing or cannot be opened adds no entry to results
\* and does not count in the denominator of the overall averages: between
\* videos and after the batch, len(results) is the number of videos opened.
C12_SkippedVideoAddsNoResult ==
    /\ pc \in {"loop", "done"} => Len(results) = opened
    /\ pc = "frames" => Len(results) = opened - 1
    /\ (pc = "done" /\ opened > 0) =>
          /\ summary.displayed
          /\ IsMeanOf(summary.avg_mae, SumOver(1..Len(results), "mae"), opened)
          /\ IsMeanOf(summary.avg_mape, SumOver(1..Len(results), "mape"), opened)
          /\ IsMeanOf(summary.avg_accuracy, SumOver(1..Len(results), "accuracy"), opened)

\* the first video was skipped, the second evaluated with an error: the
\* averages are those of the second video alone
C12_Witness ==
    /\ pc = "done"
    /\ skipped = 1
    /\ opened = 1
    /\ Len(results) = 1
    /\ results[1].video = 2
    /\ results[1].mae > 0
    /\ summary.avg_mae = Rat(results[1].mae, 100)

\* C13: a missing or unopenable video does not abort the batch: no entry of
\* the file is passed over, every entry up to the loop position was either
\* skipped or opened, and once the loop is over the summary is computed from
\* the results and the report holds them.
C13_SkipDoesNotAbortBatch ==
    /\ pc = "loop" => opened + skipped = vidx - 1
    /\ pc = "frames" => opened + skipped = vidx
    /\ (pc = "loop" /\ vidx <= Len(all_ground_truths)) => ENABLED OpenVideo
    /\ (pc = "loop" /\ vidx > Len(all_ground_truths)) => ENABLED Finish
    /\ pc = "done" =>
          /\ opened + skipped = Len(all_ground_truths)
          /\ summary = print_summary(results)
          /\ saved = results

\* the first video was skipped and the second one was still evaluated and
\* reported
C13_Witness ==
    /\ pc = "done"
    /\ Len(all_ground_truths) = 2
    /\ skipped = 1
    /\ Len(saved) = 1
    /\ saved[1].video = 2
    /\ summary.displayed

\* C14: at the start of every counting session (a video of the batch whose
\* first frame has not been read yet) the detector's current and maximum
\* counts are empty.
C14_CountsEmptyAtSessionStart ==
    (pc = "frames" /\ frame_count = 0) =>
        /\ current_counts = EmptyDict
        /\ max_counts = EmptyDict

(* ================== COCOAnimalDetectionApp.run (main.py) =============== *)
SaveInterval == 15
FpsWindow == 30

\* seconds that may pass between two readings of time.time()
Elapsed == {7, 15}

\* cv2.waitKey(1) & 0xFF, as far as run tells the keys apart
Keys == {"q", "s", "i", "none"}

\* variant: the gate opens as soon as the clock has moved
DueOnAnyProgress(current_time, last) == current_time - last > 0

\* current_time - self.last_save_time >= 15
Due(current_time, last) == current_time - last >= SaveInterval

(* ------------------- SimpleInfluxDB.save_animal_counts ----------------- *)
\* for animal_type, count in animal_counts.items(): points.append(Point...)
RECURSIVE ClassPoints(_)
ClassPoints(animal_counts) ==
    IF DOMAIN animal_counts = {} THEN <<>>
    ELSE LET animal_type == CHOOSE a \in DOMAIN animal_counts : TRUE
             rest == [a \in (DOMAIN animal_counts) \ {animal_type} |-> animal_counts[a]]
         IN  <<[measurement |-> "animal_counts",
                animal_type |-> animal_type,
                fields      |-> [count |-> animal_counts[animal_type]]]>> \o ClassPoints(rest)

\* variant: the aggregate point counts the classes, not the animals
TotalPointOfTypes(animal_counts) ==
    [measurement |-> "total_animals",
     fields      |-> [total_count  |-> Cardinality(DOMAIN animal_counts),
                      unique_types |-> Cardinality(DOMAIN animal_counts)]]

\* total_count = sum(animal_counts.values()); the "total_animals" point
TotalPoint(animal_counts) ==
    [measurement |-> "total_animals",
     fields      |-> [total_count  |-> SumDict(animal_counts),
                      unique_types |-> Cardinality(DOMAIN animal_counts)]]

PointsOf(animal_counts) == Append(ClassPoints(animal_counts), TotalPoint(animal_counts))

\* the outcome of a call that was not made
NoSave == [returned |-> "none", points |-> <<>>, written |-> FALSE]

\* variant: a failure is raised to the caller instead of being returned
save_animal_counts_raising(is_connected, animal_counts, write_ok) ==
    IF ~is_connected THEN [returned |-> "raised", points |-> <<>>, written |-> FALSE]
    ELSE IF animal_counts = EmptyDict
         THEN [returned |-> "True", points |-> <<>>, written |-> FALSE]
    ELSE IF write_ok
         THEN [returned |-> "True", points |-> PointsOf(animal_counts), written |-> TRUE]
    ELSE [returned |-> "raised", points |-> PointsOf(animal_counts), written |-> FALSE]

\* returned: the return value; points: the record handed to write_api.write;
\* written: the write went through
save_animal_counts(is_connected, animal_counts, write_ok) ==
    IF ~is_connected THEN [returned |-> "False", points |-> <<>>, written |-> FALSE]
    ELSE IF animal_counts = EmptyDict
         THEN [returned |-> "True", points |-> <<>>, written |-> FALSE]
    ELSE IF write_ok
         THEN [returned |-> "True", points |-> PointsOf(animal_counts), written |-> TRUE]
    ELSE [returned |-> "False", points |-> PointsOf(animal_counts), written |-> FALSE]

(* ------------------------------- run ----------------------------------- *)
\* variant: the quit key is ignored
AfterKeyNoQuit(pressed) == "loop"

\* if key == ord('q'): break
AfterKey(pressed) == IF pressed = "q" THEN "finally" ELSE "loop"

\* variant: the running maxima are what is handed to the store
SnapshotOfMaxima(frame_counts, maxima) == maxima

\* the counts run hands to save_animal_counts: those of the frame
SnapshotOf(frame_counts, maxima) == frame_counts

\* write_api.write returns (TRUE) or raises (FALSE), when it is called at all
WriteOutcomes(writing) == IF writing THEN BOOLEAN ELSE {TRUE}

\* an application object after __init__; the database connected or not
InitApp ==
    /\ DetectorInit
    /\ EvaluatorInit
    /\ all_ground_truths = <<>>
    /\ pc = "idle"
    /\ locals = NoLocals
    /\ MetricsIdle
    /\ AppInit
    /\ app_pc = "ready"
    /\ connected \in BOOLEAN

\* cap.isOpened() is false: run returns before the try block
SourceNotOpened ==
    /\ app_pc = "ready"
    /\ app_pc' = "returned"
    /\ UNCHANGED <<detector_vars, evaluator_vars, locals, metrics_vars, app_frame_count,
                   fps_history, last_save_time, clock, connected, key, ticks, stats,
                   stats_calls, detected_since, frames_detected, frames_shown>>

\* the capture opened: run enters the while loop
SourceOpened ==
    /\ app_pc = "ready"
    /\ app_pc' = "loop"
    /\ UNCHANGED <<detector_vars, evaluator_vars, locals, metrics_vars, app_frame_count,
                   fps_history, last_save_time, clock, connected, key, ticks, stats,
                   stats_calls, detected_since, frames_detected, frames_shown>>

\* one iteration of the while loop on a frame: detect_frame, the fps
\* bookkeeping, the persistence gate, the key handling, frame_count += 1
ProcessFrame ==
    /\ app_pc = "loop"
    /\ app_frame_count < MaxAppFrames
    /\ \E frame \in Frames, dt \in Elapsed, pressed \in Keys :
       \E write_ok \in WriteOutcomes(/\ connected
                                     /\ Due(clock + dt, last_save_time)
                                     /\ FrameCounts(frame) # EmptyDict) :
         LET frame_counts == FrameCounts(frame)
             new_max      == UpdateMax(max_counts, frame_counts)
             new_current  == NewCurrent(current_counts, frame_counts)
             current_time == clock + dt
             due          == Due(current_time, last_save_time)
             snapshot     == SnapshotOf(frame_counts, new_max)
             save         == IF due /\ frame_counts # EmptyDict
                             THEN save_animal_counts(connected, snapshot, write_ok)
                             ELSE NoSave
             raised       == save.returned = "raised"
             summarised   == ~raised /\ pressed = "s"
         IN  /\ detections' = DetectionsOf(frame)
             /\ last_frame' = frame
             /\ session_seen' = session_seen \cup {frame_counts}
             /\ fps_history' = IF fps_history < FpsWindow THEN fps_history + 1 ELSE FpsWindow
             /\ clock' = current_time
             /\ ticks' = IF due
                         THEN Append(ticks, [time      |-> current_time,
                                             snapshot  |-> snapshot,
                                             attempted |-> frame_counts # EmptyDict,
                                             returned  |-> save.returned,
                                             points    |-> save.points,
                                             written   |-> save.written])
                         ELSE ticks
             /\ last_save_time' = IF due /\ ~raised THEN current_time ELSE last_save_time
             /\ key' = IF raised THEN key ELSE pressed
             /\ app_pc' = IF raised THEN "raised" ELSE AfterKey(pressed)
             /\ app_frame_count' = IF raised \/ pressed = "q" THEN app_frame_count
                                   ELSE app_frame_count + 1
             /\ max_counts' = IF summarised THEN CountsAfterSummary(new_max) ELSE new_max
             /\ current_counts' = IF summarised THEN CountsAfterSummary(new_current)
                                  ELSE new_current
             /\ stats' = IF summarised THEN get_summary(new_current, new_max) ELSE stats
             /\ stats_calls' = IF summarised THEN stats_calls + 1 ELSE stats_calls
             /\ detected_since' = ~summarised
             /\ frames_detected' = frames_detected + 1
             /\ frames_shown' = IF raised THEN frames_shown ELSE frames_shown + 1
    /\ UNCHANGED <<evaluator_vars, locals, metrics_vars, connected>>

\* cap.read() gave no frame: break
EndOfStream ==
    /\ app_pc = "loop"
    /\ app_pc' = "finally"
    /\ UNCHANGED <<detector_vars, evaluator_vars, locals, metrics_vars, app_frame_count,
                   fps_history, last_save_time, clock, connected, key, ticks, stats,
                   stats_calls, detected_since, frames_detected, frames_shown>>

\* Ctrl-C between two iterations: except KeyboardInterrupt
KeyboardInterrupt ==
    /\ app_pc = "loop"
    /\ app_pc' = "finally"
    /\ UNCHANGED <<detector_vars, evaluator_vars, locals, metrics_vars, app_frame_count,
                   fps_history, last_save_time, clock, connected, key, ticks, stats,
                   stats_calls, detected_since, frames_detected, frames_shown>>

\* the finally block: the average of fps_history divides by its length, then
\* save_stats calls get_summary
Finally ==
    /\ app_pc = "finally"
    /\ IF fps_history = 0
       THEN /\ app_pc' = "raised"
            /\ UNCHANGED <<current_counts, max_counts, stats, stats_calls, detected_since>>
       ELSE /\ app_pc' = "stopped"
            /\ stats' = get_summary(current_counts, max_counts)
            /\ current_counts' = CountsAfterSummary(current_counts)
            /\ max_counts' = CountsAfterSummary(max_counts)
            /\ stats_calls' = stats_calls + 1
            /\ detected_since' = FALSE
    /\ UNCHANGED <<detections, last_frame, session_seen, evaluator_vars, locals, metrics_vars,
                   app_frame_count, fps_history, last_save_time, clock, connected, key,
                   ticks, frames_detected, frames_shown>>

NextApp ==
    \/ SourceNotOpened
    \/ SourceOpened
    \/ ProcessFrame
    \/ EndOfStream
    \/ KeyboardInterrupt
    \/ Finally

SpecApp == InitApp /\ [][NextApp]_vars

(* ==================== properties of the application ==================== *)
\* labels the model can name
ModelLabels == {ModelNames[id] : id \in BoxClassIds}

\* boxes of a frame that pass the allow-list
AllowedBoxes(frame) == UNION {BoxesOf(frame, label) : label \in ModelLabels}

RECURSIVE SumPeaks(_, _)
SumPeaks(seen, labels) ==
    IF labels = {} THEN 0
    ELSE LET label == CHOOSE x \in labels : TRUE
         IN  PeakSeen(seen, label) + SumPeaks(seen, labels \ {label})

\* C15: get_summary reports total_animals = sum of the current counts (the
\* allowed boxes of the latest frame), total_max = sum of the maximum counts
\* (the per-label peaks since construction) and a class count equal to the
\* number of distinct labels the detector was configured with; the total of
\* the current counts never exceeds the total of the maxima.
C15_SummaryTotals ==
    LET s == get_summary(current_counts, max_counts)
    IN  /\ s.total_animals = Cardinality(AllowedBoxes(last_frame))
        /\ s.total_max = SumPeaks(session_seen, ModelLabels)
        /\ s.animal_types = Cardinality(SUPPORTED_ANIMALS)
        /\ DOMAIN max_counts \subseteq SUPPORTED_ANIMALS
        /\ s.total_animals <= s.total_max
        /\ (stats_calls > 0 /\ ~detected_since) => stats = s

\* a summary taken when one animal is in view and the peaks add up to three
C15_Witness ==
    /\ stats_calls > 0
    /\ ~detected_since
    /\ stats.total_animals = 1
    /\ stats.total_max = 3
    /\ Cardinality(DOMAIN stats.max_counts) = 2

\* C16: get_summary is a pure read: the counts of the detector after the call
\* are the ones it reported, a call outside a frame iteration leaves current
\* and maximum as they were, and a call that follows another one with no
\* detect_frame in between returns the same summary.
C16_SummaryIsPureRead ==
    [][ stats_calls' = stats_calls + 1 =>
          /\ stats'.current_counts = current_counts'
          /\ stats'.max_counts = max_counts'
          /\ app_pc = "finally" =>
                /\ current_counts' = current_counts
                /\ max_counts' = max_counts
          /\ (app_pc = "finally" /\ stats_calls > 0 /\ ~detected_since) => stats' = stats
      ]_vars

\* 's' was pressed on the last frame and the stream ended: two summaries with
\* no detect_frame in between
C16_Witness ==
    /\ app_pc = "stopped"
    /\ key = "s"
    /\ stats_calls = 2
    /\ stats.total_max > 0

\* C17: the observation detect_frame returns counts, for each label, exactly
\* the boxes of that label that pass the allow-list (class id among the
\* configured coco ids and class name among the configured animals): labels
\* outside the allow-list do not appear, and the counts add up to the number
\* of detections returned for the frame.
C17_ObservationCountsAllowedBoxes ==
    /\ \A label \in DOMAIN current_counts :
          /\ label \in SUPPORTED_ANIMALS
          /\ current_counts[label] = Cardinality(BoxesOf(last_frame, label))
    /\ \A label \in ModelLabels \ DOMAIN current_counts : BoxesOf(last_frame, label) = {}
    /\ SumValues(current_counts, DOMAIN current_counts) = Len(detections)
    /\ Len(detections) = Cardinality(AllowedBoxes(last_frame))
    /\ \A i \in 1..Len(detections) :
          /\ detections[i].coco_id \in COCO_IDS
          /\ detections[i].class_name \in SUPPORTED_ANIMALS

\* a frame with a person and a horse: one detection, the horse
C17_Witness ==
    /\ Len(last_frame) = 2
    /\ \E i \in 1..2 : ModelNames[last_frame[i]] = "person"
    /\ Len(detections) = 1
    /\ current_counts = [label \in {"horse"} |-> 1]

\* the tick a step has just recorded
NewTick == ticks'[Len(ticks')]

\* C18: a failed persistence attempt (store not connected, or the write
\* raising) returns False and is dropped: the tick is consumed, so that no
\* new attempt is made before the next interval has passed, nothing is raised
\* into the frame loop, and unless quit was pressed on that frame the loop
\* goes on with the next frame.
C18_FailedSaveIsDropped ==
    /\ [][ (Len(ticks') = Len(ticks) + 1 /\ NewTick.attempted /\ ~NewTick.written) =>
             /\ NewTick.returned = "False"
             /\ last_save_time' = NewTick.time
             /\ app_pc' # "raised"
             /\ key' # "q" => (app_pc' = "loop" /\ app_frame_count' = app_frame_count + 1)
         ]_vars
    /\ [](\A i \in 1..Len(ticks) :
            (ticks[i].attempted /\ ~ticks[i].written) =>
                /\ clock - ticks[i].time < SaveInterval => Len(ticks) = i
                /\ i < Len(ticks) => ticks[i + 1].time - ticks[i].time >= SaveInterval)

\* the write of the first tick raised although the store is connected, and
\* the loop has processed a later frame
C18_Witness ==
    /\ connected
    /\ app_pc = "loop"
    /\ Len(ticks) >= 1
    /\ ticks[1].attempted
    /\ ~ticks[1].written
    /\ clock > ticks[1].time

\* C19: persistence is gated by the elapsed clock time: a frame passes the
\* gate only when at least 15 seconds lie between its clock reading and the
\* previous tick (the construction of the application for the first one), so
\* two consecutive attempts are at least 15 seconds apart.
C19_AttemptsAtLeastIntervalApart ==
    /\ \A i \in 1..Len(ticks) :
          ticks[i].time - (IF i = 1 THEN 0 ELSE ticks[i - 1].time) >= SaveInterval
    /\ \A i, j \in 1..Len(ticks) :
          (i < j /\ ticks[i].attempted /\ ticks[j].attempted) =>
              ticks[j].time - ticks[i].time >= SaveInterval
    /\ last_save_time = (IF ticks = <<>> THEN 0 ELSE ticks[Len(ticks)].time)

\* two attempts 22 seconds apart with a frame in between that did not pass
\* the gate
C19_Witness ==
    /\ Len(ticks) = 2
    /\ ticks[1].attempted
    /\ ticks[2].attempted
    /\ ticks[2].time - ticks[1].time = 22
    /\ app_frame_count = 3

\* the batch of a tick has one point per class of the snapshot, with its
\* count, and one aggregate point with the sum of the counts
IsFullBatch(tick) ==
    LET n == Cardinality(DOMAIN tick.snapshot)
    IN  /\ Len(tick.points) = n + 1
        /\ \A a \in DOMAIN tick.snapshot :
              \E i \in 1..n : /\ tick.points[i].measurement = "animal_counts"
                              /\ tick.points[i].animal_type = a
                              /\ tick.points[i].fields.count = tick.snapshot[a]
        /\ tick.points[n + 1].measurement = "total_animals"
        /\ tick.points[n + 1].fields.total_count =
              SumValues(tick.snapshot, DOMAIN tick.snapshot)

\* C20 as stated: at every persistence tick a batch of (number of classes)
\* + 1 points is written, the aggregate total being the sum of the counts.
C20_AsStated ==
    \A i \in 1..Len(ticks) : IsFullBatch(ticks[i])

\* C20: at every persistence tick whose frame has at least one detection,
\* with the store connected, the batch handed to the write has one point per
\* class of the frame's counts plus one aggregate point whose total is the
\* sum of these counts; at any other tick no point is built.
C20_BatchOfNonEmptyTick ==
    \A i \in 1..Len(ticks) :
        IF ticks[i].attempted /\ connected
        THEN IsFullBatch(ticks[i])
        ELSE ticks[i].points = <<>> /\ ~ticks[i].written

\* a tick on a frame with one horse and one cow: three points were written
C20_Witness ==
    /\ Len(ticks) >= 1
    /\ ticks[1].written
    /\ DOMAIN ticks[1].snapshot = {"horse", "cow"}
    /\ Len(ticks[1].points) = 3

\* the iteration in which the quit key is read
QuitStep == app_pc = "loop" /\ key' = "q" /\ frames_detected' = frames_detected + 1

\* the frame of the step was detected, aggregated, persisted if due, shown
FrameCompleted ==
    /\ current_counts' = ObservationOf(last_frame')
    /\ \A label \in DOMAIN current_counts' :
          Get(max_counts', label) >= current_counts'[label]
    /\ Due(clock', last_save_time) =>
          /\ Len(ticks') = Len(ticks) + 1
          /\ NewTick.snapshot = current_counts'
          /\ last_save_time' = clock'
    /\ ~Due(clock', last_save_time) => ticks' = ticks
    /\ frames_shown' = frames_shown + 1

\* no frame is read, detected, persisted or shown in the step
NoFrameRead ==
    /\ app_pc' # "loop"
    /\ frames_detected' = frames_detected
    /\ frames_shown' = frames_shown
    /\ last_frame' = last_frame
    /\ ticks' = ticks

\* C21: the quit key ends the frame loop only after the frame of that
\* iteration has been detected, aggregated, persisted if the gate was open,
\* and displayed; and once the loop is left no further frame is read.
C21_QuitAfterCurrentFrame ==
    /\ [][QuitStep => (app_pc' = "finally" /\ FrameCompleted)]_vars
    /\ [][(app_pc \in {"finally", "stopped", "raised"}) => NoFrameRead]_vars

\* quit was pressed on the second frame, whose counts were written at the
\* tick of that very iteration, and the run has shut down
C21_Witness ==
    /\ app_pc = "stopped"
    /\ key = "q"
    /\ frames_detected = 2
    /\ frames_shown = 2
    /\ Len(ticks) = 1
    /\ ticks[1].time = clock
    /\ ticks[1].written

(* ================== properties settled across the specs ================ *)
\* the per-label peaks of a set of observations, as a count dict
PeaksOf(seen) ==
    LET present == {label \in ModelLabels : PeakSeen(seen, label) > 0}
    IN  [label \in present |-> PeakSeen(seen, label)]

\* C22: the predicted counts of a video's result are the pointwise maxima
\* over the frames of that video only, whatever the detector has accumulated
\* from the videos evaluated before it, and every result is the one
\* calculate_metrics gives for its own predicted counts and ground truth.
C22_PredictedFromOwnFramesOnly ==
    /\ (pc \in {"loop", "done"} /\ results # <<>>) =>
          results[Len(results)].predicted = PeaksOf(video_seen)
    /\ \A i \in 1..Len(results) :
          LET r == results[i]
          IN  /\ r.ground_truth = all_ground_truths[r.video]
              /\ r = calculate_metrics(r.predicted, r.ground_truth, r.video)

\* two horses in the first video, one in the second: the second result
\* predicts one horse although the detector's maximum is two
C22_Witness ==
    /\ pc = "done"
    /\ Len(results) = 2
    /\ results[1].predicted = [label \in {"horse"} |-> 2]
    /\ results[2].predicted = [label \in {"horse"} |-> 1]
    /\ max_counts = [label \in {"horse"} |-> 2]

\* C23: once run has opened the source, the final statistics summary is
\* emitted at shutdown whatever ended the loop, also when no frame was read:
\* a run that has ended has called get_summary on the final counts.
C23_FinalStatsAtShutdown ==
    app_pc \in {"stopped", "raised"} =>
        /\ stats_calls > 0
        /\ ~detected_since
        /\ stats = get_summary(current_counts, max_counts)

\* C24: when run has left the frame loop, frame_count is the number of
\* frames that were passed to the detector in this run.
C24_FrameCountIsFramesDetected ==
    app_pc \in {"finally", "stopped", "raised"} => app_frame_count = frames_detected

\* the tick of the step has the counts of the frame of the step; nothing is
\* built for an empty frame; the points written carry the counts of the frame
TickOfCurrentFrame ==
    /\ NewTick.time = clock'
    /\ NewTick.snapshot = ObservationOf(last_frame')
    /\ last_save_time' = clock'
    /\ NewTick.snapshot = EmptyDict =>
          (~NewTick.attempted /\ NewTick.points = <<>> /\ ~NewTick.written)
    /\ NewTick.written =>
          \A a \in DOMAIN NewTick.snapshot :
              \E i \in 1..Len(NewTick.points) - 1 :
                  /\ NewTick.points[i].animal_type = a
                  /\ NewTick.points[i].fields.count = Cardinality(BoxesOf(last_frame', a))

\* C25: the snapshot handed to the store at a persistence tick is the
\* observation of the frame processed at that tick, neither the running
\* maximum nor an aggregate of earlier frames; at a tick on a frame without
\* detections nothing is written and the 15-second gate restarts.
C25_SnapshotIsCurrentFrame ==
    [][Len(ticks') = Len(ticks) + 1 => TickOfCurrentFrame]_vars

\* two horses seen before the first tick, whose frame has one horse: one
\* horse is written; the second tick falls on an empty frame and is consumed
C25_Witness ==
    /\ Len(ticks) = 2
    /\ ticks[1].written
    /\ ticks[1].snapshot = [label \in {"horse"} |-> 1]
    /\ max_counts = [label \in {"horse"} |-> 2]
    /\ ticks[2].snapshot = EmptyDict
    /\ ticks[2].points = <<>>
    /\ last_save_time = ticks[2].time

\* C26: for non-negative P and G the result of calculate_metrics has
\* 0 <= correct_counts <= total_classes, 0 <= accuracy <= 100, mae >= 0 and
\* mape >= 0, and correct_counts = total_classes exactly when the summed
\* absolute error over the classes of G is 0.
C26_MetricRanges ==
    Returned =>
        /\ 0 <= m_result.correct_counts
        /\ m_result.correct_counts <= m_result.total_classes
        /\ 0 <= m_result.accuracy
        /\ m_result.accuracy <= 10000
        /\ m_result.mae >= 0
        /\ m_result.mape >= 0
        /\ (m_result.correct_counts = m_result.total_classes) <=>
              (SumAbsErr(m_predicted, m_ground_truth, DOMAIN m_ground_truth) = 0)

\* one class of three is exact, one is missed by more than its expected
\* count: accuracy strictly inside its range, mape above 100
C26_Witness ==
    /\ Returned
    /\ m_result.total_classes = 3
    /\ m_result.correct_counts = 1
    /\ m_result.accuracy = 3333
    /\ m_result.mape > 10000

====
